---- MODULE Spec2Model ----
(***************************************************************************)
(* The embed-content acquisition and caching pipeline of                   *)
(* plugins/embedbase/plugin.js: the JSONP transport, the response cache,   *)
(* loadContent and its handlers, the notification tasks, the widget's      *)
(* iframe and the cache of frame contents.                                 *)
(*                                                                         *)
(* One action is one turn of the browser's event loop (a task together     *)
(* with the promise reactions it leaves, which run before the next task).  *)
(***************************************************************************)
EXTENDS Integers, Sequences, FiniteSets, TLC

(* ------------------------------ bounds -------------------------------- *)

\* loadContent calls in one behaviour (also the number of response objects).
MaxReq == 2
\* widget instances of the one definition in the one editor.
MaxWidgets == 2
\* tokens in a piece of markup handed to a function that is checked on its own.
MaxLen == 3
\* characters in a url or title of a photo response.
MaxText == 2
\* iframes whose document elements go through the frame-contents cache on its own.
MaxFrames == 3

Widgets == 1..MaxWidgets
ReqIds == 1..MaxReq

(* ---------------------------- the provider ---------------------------- *)

\* Resource URLs; the provider answers each with a response of one oEmbed type.
Urls == {"uVideo", "uRich", "uPhoto", "uLink"}
NoUrl == "none"

\* Markup is a list of tokens; these are the ones the code looks for.
IFRAME == "<iframe"
TABINDEX == " tabindex=\"-1\""
SCRIPT == "<script"
SCRIPTEND == "</script>"
VideoSrc == " src=\"//vid.example/embed/1\">"
ScriptSrc == " src=\"//platform.example/widgets.js\">"
OtherSrc == " src=\"//cdn.example/other.js\">"

\* The value of the src attribute a token carries ("" for a token without one).
SrcOf(tok) ==
    CASE tok = VideoSrc -> "//vid.example/embed/1"
      [] tok = ScriptSrc -> "//platform.example/widgets.js"
      [] tok = OtherSrc -> "//cdn.example/other.js"
      [] OTHER -> ""

\* The oEmbed response the provider's script passes to the JSONP callback.
\* hasHtml is FALSE when the response object has no html property, hasTitle when
\* it has no title; url and title are lists of characters.
ProviderResponse(u) ==
    CASE u = "uVideo" -> [type |-> "video", hasHtml |-> TRUE,
                          html |-> <<IFRAME, VideoSrc, "</iframe>">>,
                          url |-> <<>>, hasTitle |-> FALSE, title |-> <<>>]
      [] u = "uRich"  -> [type |-> "rich", hasHtml |-> TRUE,
                          html |-> <<"<blockquote>post</blockquote>", SCRIPT, ScriptSrc,
                                     SCRIPTEND>>,
                          url |-> <<>>, hasTitle |-> FALSE, title |-> <<>>]
      [] u = "uPhoto" -> [type |-> "photo", hasHtml |-> FALSE, html |-> <<>>,
                          url |-> <<"https://x/img.png">>, hasTitle |-> TRUE,
                          title |-> <<"T">>]
      [] OTHER        -> [type |-> "link", hasHtml |-> FALSE, html |-> <<>>,
                          url |-> <<>>, hasTitle |-> FALSE, title |-> <<>>]

\* The slot of a response object that does not exist (yet).
NoResponse == [type |-> "none", hasHtml |-> FALSE, html |-> <<>>, url |-> <<>>,
               hasTitle |-> FALSE, title |-> <<>>]

(* ------------------------------- state -------------------------------- *)

VARIABLES
    scope,        \* which family of runs this is (see Init): "one" widget or "many"
    env,          \* the platform, CKEDITOR.env: gecko resolves appendIframe() on iframe#onload
    widgets,      \* widget instances: lifecycle, data.url, element html, iframe, listener
    reqs,         \* the request objects loadContent created, in order of creation
    registry,     \* the keys of CKEDITOR._.jsonpCallbacks
    heap,         \* response objects by identity (the object delivered to request i is i)
    cache,        \* definition._cache: url -> response object (0: no entry)
    aggregator,   \* the closure variable `aggregator` (0: undefined)
    aggs,         \* the notification aggregators created so far
    frames,       \* the iframes created inside widget elements
    frameCache,   \* editor._.cachedFrameContents: url -> list of document elements
    promises,     \* pending appendIframe().then() reactions
    probe         \* the call of a function that is run on its own: arguments and result

vars == <<scope, env, widgets, reqs, registry, heap, cache, aggregator, aggs,
          frames, frameCache, promises, probe>>

\* The mutable program state as one record, so that a handler is a function
\* from state to state and handlers compose as they call each other.
State == [widgets |-> widgets, reqs |-> reqs, registry |-> registry, heap |-> heap,
          cache |-> cache, aggregator |-> aggregator, aggs |-> aggs,
          frames |-> frames, frameCache |-> frameCache, promises |-> promises,
          env |-> env]

\* The pipeline's variables take the values of state s.
Assign(s) ==
    /\ widgets' = s.widgets
    /\ reqs' = s.reqs
    /\ registry' = s.registry
    /\ heap' = s.heap
    /\ cache' = s.cache
    /\ aggregator' = s.aggregator
    /\ aggs' = s.aggs
    /\ frames' = s.frames
    /\ frameCache' = s.frameCache
    /\ promises' = s.promises
    /\ UNCHANGED <<scope, env>>

Becomes(s) == Assign(s) /\ UNCHANGED probe

\* A widget slot: st is "none" before the instance exists, "alive" while it is in
\* editor.widgets.instances, "destroyed" afterwards; inDoc says whether its element
\* is in the editable's document; frame is the iframe inside the element (0: none);
\* restore is the data-restore-html attribute; listener is the consumer's
\* handleResponse listener; sender is "custom" when the consumer has a
\* 'sendRequest' listener that stops the event and sends the request itself.
NoWidget == [st |-> "none", url |-> NoUrl, html |-> <<>>, frame |-> 0,
             inDoc |-> FALSE, restore |-> FALSE, listener |-> "none",
             sender |-> "default"]

\* The runs are explored in two families, so that each stays finite and small:
\* one widget with a url of each outcome (markup with an iframe, a photo, an
\* unsupported type) and either handleResponse listener, or MaxWidgets widgets of
\* one url (markup with a script) without a consumer listener.
\* A third family, with one widget whose consumer may replace the transport, is
\* explored on its own (SpecOverride).
ScopeWidgets ==
    IF scope \in {"one", "override"} THEN {w \in Widgets : \A v \in Widgets : w <= v}
    ELSE Widgets
ScopeUrls ==
    CASE scope = "one" -> Urls \ {"uRich"}
      [] scope = "override" -> {"uRich", "uLink"}
      [] OTHER -> {"uRich"}
ScopeListeners == IF scope \in {"one", "override"} THEN {"none", "cancel"} ELSE {"none"}

\* No function is being run on its own.
NoProbe == [op |-> "none"]

\* The editor before any widget exists: nothing requested, cached or rendered.
Idle ==
    /\ widgets = [w \in Widgets |-> NoWidget]
    /\ reqs = <<>>
    /\ registry = {}
    /\ heap = [i \in ReqIds |-> NoResponse]
    /\ cache = [u \in Urls |-> 0]
    /\ aggregator = 0
    /\ aggs = <<>>
    /\ frames = <<>>
    /\ frameCache = [u \in Urls |-> <<>>]
    /\ promises = <<>>

Init ==
    /\ scope \in {"one", "many"}
    /\ env \in {"webkit", "gecko"}
    /\ Idle
    /\ probe = NoProbe

(* ------------------------ response conversion ------------------------- *)

\* Faulty variant: the replacement without the g flag, which rewrites the first
\* <iframe only.
ReplaceFirstIframe(h) ==
    LET at == {k \in 1..Len(h) : h[k] = IFRAME}
    IN IF at = {} THEN h
       ELSE LET k == CHOOSE j \in at : \A m \in at : j <= m
            IN SubSeq(h, 1, k) \o <<TABINDEX>> \o SubSeq(h, k + 1, Len(h))

\* String.prototype.replace( /<iframe/g, '<iframe tabindex="-1"' ) on a token list.
RECURSIVE ReplaceIframe(_)
ReplaceIframe(h) ==
    IF h = <<>> THEN <<>>
    ELSE (IF Head(h) = IFRAME THEN <<IFRAME, TABINDEX>> ELSE <<Head(h)>>)
         \o ReplaceIframe(Tail(h))

\* CKEDITOR.tools.htmlEncodeAttr: &, <, > and " become entities.
HtmlEncodeChar(c) ==
    CASE c = "&" -> "&amp;"
      [] c = "<" -> "&lt;"
      [] c = ">" -> "&gt;"
      [] c = "\"" -> "&quot;"
      [] OTHER -> c

HtmlEncodeAttr(t) == [k \in 1..Len(t) |-> HtmlEncodeChar(t[k])]

\* _responseToHtml: the returned html (null: TRUE for null) and the response
\* object as the call leaves it (a video or rich response has its html rewritten
\* in place).
ResponseToHtml(r) ==
    IF r.type = "photo"
    THEN [null |-> FALSE,
          html |-> <<"<img src=\"">> \o HtmlEncodeAttr(r.url) \o <<"\" alt=\"">>
                   \o HtmlEncodeAttr(IF r.hasTitle THEN r.title ELSE <<>>)
                   \o <<"\" style=\"max-width:100%;height:auto\" />">>,
          resp |-> r]
    ELSE IF r.type \in {"video", "rich"}
    THEN LET h == ReplaceIframe(r.html)
         IN [null |-> FALSE, html |-> h, resp |-> [r EXCEPT !.html = h]]
    ELSE [null |-> TRUE, html |-> <<>>, resp |-> r]

(* ----------------------- notification aggregator ---------------------- *)

\* notificationAggregator#isFinished: every task created is resolved.
IsFinished(s, a) == s.aggs[a].resolved = s.aggs[a].total

NewAggregator == [total |-> 0, resolved |-> 0, finished |-> 0]

\* Faulty variant: _createTask that makes a new aggregator for every task.
TaskAggregatorAlwaysNew(s) ==
    [s EXCEPT !.aggs = Append(@, NewAggregator), !.aggregator = Len(s.aggs) + 1]

\* The aggregator _createTask takes the task from: the current one unless there
\* is none or it is finished, and then a new one.
TaskAggregator(s) ==
    IF s.aggregator = 0 \/ IsFinished(s, s.aggregator)
    THEN [s EXCEPT !.aggs = Append(@, NewAggregator), !.aggregator = Len(s.aggs) + 1]
    ELSE s

\* _createTask for request i.
CreateTask(s, i) ==
    LET s1 == TaskAggregator(s)
        a == s1.aggregator
    IN [s1 EXCEPT !.aggs[a].total = @ + 1,
                  !.reqs[i].task = a, !.reqs[i].taskSt = "open"]

\* task.done() and task.cancel(): a task is resolved once; resolving the last
\* open task of its aggregator fires 'finished'.
ResolveTask(s, i, how) ==
    IF s.reqs[i].taskSt # "open" THEN s
    ELSE LET a == s.reqs[i].task
             n == s.aggs[a].resolved + 1
         IN [s EXCEPT !.reqs[i].taskSt = how,
                      !.aggs[a].resolved = n,
                      !.aggs[a].finished = IF n = s.aggs[a].total THEN @ + 1 ELSE @]

(* ------------------------ the widget's element ------------------------ *)

HasIframe(h) == \E k \in 1..Len(h) : h[k] = IFRAME

\* An iframe element: owner is the widget whose element holds it, src says whether
\* it has a src attribute (an iframe of the provider's markup), attached whether it
\* is in the document, loaded whether its load event has fired, body the content
\* installed under its document element, polls the resize intervals started in
\* its window. taken records how getCachedFrameContents found the frame when it
\* returned its document element ("no": never returned).
NewFrame(s, w, src) ==
    [owner |-> w, src |-> src, attached |-> s.widgets[w].inDoc, loaded |-> FALSE,
     body |-> <<>>, polls |-> 0, taken |-> "no"]

DetachFrame(s, f) ==
    IF f = 0 THEN s ELSE [s EXCEPT !.frames[f].attached = FALSE]

\* element.setHtml( content ): the old children leave the document; an <iframe
\* in the markup becomes an iframe element of the widget's element.
SetHtml(s, w, content) ==
    LET s1 == DetachFrame(s, s.widgets[w].frame)
    IN IF HasIframe(content)
       THEN [s1 EXCEPT !.frames = Append(@, NewFrame(s, w, TRUE)),
                       !.widgets[w].html = content,
                       !.widgets[w].frame = Len(s.frames) + 1]
       ELSE [s1 EXCEPT !.widgets[w].html = content, !.widgets[w].frame = 0]

\* _setContent
SetContent(s, w, url, content) ==
    SetHtml([s EXCEPT !.widgets[w].url = url], w, content)

(* ------------------------ frame-contents cache ------------------------ *)

\* cacheFrameContents: the document element of iframe f is pushed to url's list.
CacheFrameContents(s, url, f) ==
    [s EXCEPT !.frameCache[url] = Append(@, f)]

\* isDetached( element ): `window` is the negation of the wrapper getWindow()
\* returns, the boolean false, whose `$` is undefined, so the first return is
\* taken for every element; the frame's state is never consulted.
IsDetached(s, f) ==
    LET window == ~ (f \in DOMAIN s.frames)
    IN window \in BOOLEAN

\* getCachedFrameContents: the first entry of url's list that isDetached accepts
\* is spliced out and returned (found: FALSE for null).
GetCachedFrameContents(s, url) ==
    LET list == s.frameCache[url]
        ok == {k \in 1..Len(list) : IsDetached(s, list[k])}
    IN IF ok = {} THEN [found |-> FALSE, contents |-> 0, s |-> s]
       ELSE LET k == CHOOSE j \in ok : \A m \in ok : j <= m
                contents == list[k]
                index == CHOOSE j \in 1..Len(list) :
                            list[j] = contents /\ \A m \in 1..(j - 1) : list[m] # contents
            IN [found |-> TRUE, contents |-> contents,
                s |-> [s EXCEPT !.frameCache[url] =
                          SubSeq(list, 1, index - 1) \o SubSeq(list, index + 1, Len(list)),
                                !.frames[contents].taken =
                          IF s.frames[contents].attached THEN "attached" ELSE "detached"]]

(* ------------------------------ the iframe ---------------------------- *)

\* addResizeListener: resize() and a new interval in the window of the widget's iframe.
AddResizeListener(s, w) ==
    LET f == s.widgets[w].frame
    IN IF f = 0 THEN s ELSE [s EXCEPT !.frames[f].polls = @ + 1]

\* restoreContents: parent's children are removed, the children of contents are
\* moved under parent, scripts are re-created, the resize listener is started.
RestoreContents(s, parent, contents, w) ==
    AddResizeListener(
        [s EXCEPT !.frames[parent].body = s.frames[contents].body,
                  !.frames[contents].body = IF contents = parent THEN s.frames[contents].body
                                            ELSE <<>>],
        w)

\* appendIframe up to its return: the iframe found in the element, or a new one
\* appended to the emptied element.
AppendIframe(s, w) ==
    IF s.widgets[w].frame # 0 THEN [s |-> s, f |-> s.widgets[w].frame]
    ELSE LET s1 == SetHtml(s, w, <<>>)
         IN [s |-> [s1 EXCEPT !.frames = Append(@, NewFrame(s, w, FALSE)),
                              !.widgets[w].frame = Len(s.frames) + 1],
             f |-> Len(s.frames) + 1]

\* appendIframe().then( reaction ): the reaction waits for the promise.
Then(s, p) == [s EXCEPT !.promises = Append(@, p)]

\* content.replace( /<script(.|\n)*?<\/script>/gmi, '' )
RECURSIVE StripScripts(_, _)
StripScripts(h, inScript) ==
    IF h = <<>> THEN <<>>
    ELSE IF inScript
         THEN StripScripts(Tail(h), Head(h) # SCRIPTEND)
         ELSE IF Head(h) = SCRIPT THEN StripScripts(Tail(h), TRUE)
              ELSE <<Head(h)>> \o StripScripts(Tail(h), FALSE)

\* content.match( /<script.*src="([^"]*)/ )[ 1 ] on one line of markup: from the
\* first <script, the greedy .* runs to the last src=" after it ("null": no match).
ScriptUrl(h) ==
    LET starts == {k \in 1..Len(h) : h[k] = SCRIPT}
    IN IF starts = {} THEN "null"
       ELSE LET first == CHOOSE k \in starts : \A m \in starts : k <= m
                srcs == {k \in (first + 1)..Len(h) : SrcOf(h[k]) # ""}
            IN IF srcs = {} THEN "null"
               ELSE SrcOf(h[CHOOSE k \in srcs : \A m \in srcs : m <= k])

\* What the reaction of addContent appends to the frame's body for content: a
\* container with the content without its script elements, and one script element
\* whose src is set to scriptUrl (scripts: the src of each script element appended).
Installed(content) ==
    [html |-> StripScripts(content, FALSE), scripts |-> <<ScriptUrl(content)>>]

\* addContent( content ): appendIframe() and the reaction registered on it.
AddContent(s, w, hasContent, content) ==
    LET a == AppendIframe(s, w)
    IN Then(a.s, [kind |-> "add", w |-> w, f |-> a.f, url |-> NoUrl,
                  hasContent |-> hasContent, content |-> content])

\* The reaction of addContent. getFrameDocument throws on an iframe of the
\* provider's markup once it has loaded its cross-origin page, and content.match
\* throws when content is undefined, both before anything is done; otherwise the
\* frame's document element is cached under the widget's current url, and the
\* style, the content without scripts and a script element are appended.
AddContentThen(s, p) ==
    IF (s.frames[p.f].src /\ s.frames[p.f].loaded) \/ ~ p.hasContent THEN s
    ELSE LET s1 == CacheFrameContents(s, s.widgets[p.w].url, p.f)
             s2 == [s1 EXCEPT !.frames[p.f].body =
                                 Append(@, Installed(p.content)),
                              !.widgets[p.w].restore = TRUE]
         IN AddResizeListener(s2, p.w)

(* ------------------------------ transport ----------------------------- *)

\* A request object with the closure state of its Jsonp.sendRequest call and the
\* observations made on it. kind: "hit" when the cache was hit, "sent" when the
\* request went to the transport. caller: the call came from a consumer, who
\* passed callback and errorCallback and keeps the returned value (FALSE: the
\* widget's own call on 'ready'). task: its aggregator (0: no task). script: the
\* script element ("attached" while the closure's scriptElement is set). net: what
\* the browser has done with the script. timer: pending setTimeout callbacks with
\* the response object tresp. Counters: fin, runs of finishLoading; invalid, runs
\* that found the widget destroyed (the 'embedbase-widget-invalid' warning); terr,
\* runs of the transport's error callback; err, runs of request.errorCallback; okCb
\* and errCb, runs of the caller's callbacks (msg: the last message passed);
\* warned, notifications shown (wmsg: the last kind). cancelled: "no" until
\* request.cancel() is called, then "pending" when the first call came before any
\* callback of the transport and "late" when it came after one. ret: what
\* loadContent returned ("undefined" or the "request"); hasCancel: the request
\* object has a cancel method. during: the requests of the same widget that were
\* outstanding (no response handled, no error) when loadContent created this one.
\* steps: what finishLoading did for this request, in the order it did it; cbSaw:
\* what the caller's success callback found when it ran (the response cached
\* under the url, data.url equal to the url, the element showing the converted
\* content, the state of the task).
NewRequest(w, u, noNotif, caller) ==
    [w |-> w, url |-> u, noNotif |-> noNotif, caller |-> caller, kind |-> "new",
     ret |-> "none", hasCancel |-> FALSE, during |-> {},
     task |-> 0, taskSt |-> "none", script |-> "none", net |-> "none",
     timer |-> 0, tresp |-> 0, response |-> 0,
     fin |-> 0, invalid |-> 0, terr |-> 0, err |-> 0, cancelled |-> "no",
     okCb |-> 0, errCb |-> 0, msg |-> "", warned |-> 0, wmsg |-> "",
     steps |-> <<>>,
     cbSaw |-> [cached |-> FALSE, url |-> FALSE, content |-> FALSE, task |-> "none"]]

\* Faulty variant: cleanUp that removes the script element and leaves the callback registered.
CleanUpKeepsCallback(s, i) ==
    IF s.reqs[i].script = "attached"
    THEN [s EXCEPT !.reqs[i].script = "removed"]
    ELSE s

\* cleanUp of Jsonp.sendRequest for request i.
CleanUp(s, i) ==
    IF s.reqs[i].script = "attached"
    THEN [s EXCEPT !.reqs[i].script = "removed", !.registry = @ \ {i}]
    ELSE s

\* Jsonp.sendRequest: the callback is registered under a fresh key (the request's
\* number) and the script element is attached.
JsonpSendRequest(s, i) ==
    [s EXCEPT !.registry = @ \cup {i},
              !.reqs[i].script = "attached",
              !.reqs[i].net = "pending",
              !.reqs[i].kind = "sent"]

(* ---------------------------- loadContent ----------------------------- *)

\* finishLoading reaches step `what` for request i.
Step(s, i, what) == [s EXCEPT !.reqs[i].steps = Append(@, what)]

\* if ( request.task ) request.task.done()
TaskDone(s, i) ==
    IF s.reqs[i].task # 0 THEN ResolveTask(s, i, "done") ELSE s

\* Faulty variant: _handleError that shows the warning whatever the request says.
HandleErrorUnconditional(s, i, msg) ==
    [s EXCEPT !.reqs[i].warned = @ + 1, !.reqs[i].wmsg = msg]

\* _handleError
HandleError(s, i, msg) ==
    IF s.reqs[i].task # 0
    THEN LET s1 == ResolveTask(s, i, "canceled")
         IN IF ~ s.reqs[i].noNotif
            THEN [s1 EXCEPT !.reqs[i].warned = @ + 1, !.reqs[i].wmsg = msg]
            ELSE s1
    ELSE s

\* request.errorCallback( msg ): _handleError, then the caller's errorCallback.
RequestErrorCallback(s, i, msg) ==
    LET s1 == HandleError([s EXCEPT !.reqs[i].err = @ + 1], i, msg)
    IN IF s.reqs[i].caller
       THEN [s1 EXCEPT !.reqs[i].errCb = @ + 1, !.reqs[i].msg = msg]
       ELSE s1

\* Faulty variant: a conversion failure reported with the transport's error kind.
UnsupportedMessageAsFetch == "fetchingFailed"

\* evt.data.errorMessage of the default 'handleResponse' listener.
UnsupportedMessage == "unsupportedUrl"

\* _handleResponse: 'handleResponse' is fired (the consumer's listener first, then
\* the default one, which converts the response); on success the task is done
\* and the content is set, otherwise the error callback is called.
HandleResponse(s, i) ==
    LET r == s.reqs[i]
        oid == r.response
    IN IF s.widgets[r.w].listener = "cancel"
       THEN [ok |-> FALSE, s |-> RequestErrorCallback(s, i, "custom")]
       ELSE LET c == ResponseToHtml(s.heap[oid])
                s1 == Step([s EXCEPT !.heap[oid] = c.resp], i, "convert")
            IN IF c.null
               THEN [ok |-> FALSE, s |-> RequestErrorCallback(s1, i, UnsupportedMessage)]
               ELSE LET s2 == IF r.task # 0 THEN Step(TaskDone(s1, i), i, "task") ELSE s1
                    IN [ok |-> TRUE,
                        s |-> Step(SetContent(s2, r.w, r.url, c.html), i, "set")]

\* Faulty variant: _cacheResponse that stores nothing in the definition's cache.
CacheResponseNowhere(s, url, oid) == s

\* _cacheResponse
CacheResponse(s, url, oid) == [s EXCEPT !.cache[url] = oid]

\* Faulty variant: finishLoading that does not check the widget.
WidgetIsValidUnchecked(s, w) == TRUE

\* that.editor.widgets.instances[ that.id ]
WidgetIsValid(s, w) == s.widgets[w].st = "alive"

\* The content a response converts to, without converting it again.
ContentOf(resp) == IF resp.type = "photo" THEN ResponseToHtml(resp).html ELSE resp.html

\* opts.callback() of request i: the caller looks at the cache and the widget.
CallerCallback(s, i, oid) ==
    LET r == s.reqs[i]
    IN Step([s EXCEPT !.reqs[i].okCb = @ + 1,
                      !.reqs[i].cbSaw =
                          [cached |-> s.cache[r.url] = oid,
                           url |-> s.widgets[r.w].url = r.url,
                           content |-> s.widgets[r.w].html = ContentOf(s.heap[oid]),
                           task |-> r.taskSt]],
            i, "callback")

\* Faulty variant: finishLoading that calls the caller back before it caches the
\* response.
FinishLoadingCallbackFirst(s, i, oid) ==
    LET s0 == [s EXCEPT !.reqs[i].response = oid, !.reqs[i].fin = @ + 1]
        r == s.reqs[i]
    IN IF ~ (s.widgets[r.w].st = "alive")
       THEN TaskDone([s0 EXCEPT !.reqs[i].invalid = @ + 1], i)
       ELSE LET h == HandleResponse(s0, i)
            IN IF ~ h.ok THEN h.s
               ELSE LET s1 == IF r.caller THEN CallerCallback(h.s, i, oid) ELSE h.s
                        s2 == Step([s1 EXCEPT !.cache[r.url] = oid], i, "cache")
                        resp == s2.heap[oid]
                    IN Step(AddContent(s2, r.w, resp.hasHtml, resp.html), i, "install")

\* finishLoading( response ) of request i.
FinishLoading(s, i, oid) ==
    LET s0 == [s EXCEPT !.reqs[i].response = oid, !.reqs[i].fin = @ + 1]
        r == s.reqs[i]
    IN IF ~ WidgetIsValid(s, r.w)
       THEN TaskDone([s0 EXCEPT !.reqs[i].invalid = @ + 1], i)
       ELSE LET h == HandleResponse(s0, i)
            IN IF ~ h.ok THEN h.s
               ELSE LET s1 == Step(CacheResponse(h.s, r.url, oid), i, "cache")
                        s2 == IF r.caller THEN CallerCallback(s1, i, oid) ELSE s1
                        resp == s2.heap[oid]
                    IN Step(AddContent(s2, r.w, resp.hasHtml, resp.html), i, "install")

\* Faulty variant: a registered callback that calls the success callback itself.
JsonpCallbackSync(s, i, oid) == FinishLoading(CleanUp(s, i), i, oid)

\* CKEDITOR._.jsonpCallbacks[ callbackKey ]( response ) of request i: the success
\* callback is left to a timer. oid is the response object the provider passed.
JsonpCallback(s, i, oid) ==
    [s EXCEPT !.reqs[i].timer = @ + 1, !.reqs[i].tresp = oid]

\* Faulty variant: a cache hit that takes a progress task before it returns.
ScheduleCachedAfterTask(s, i, oid) ==
    [CreateTask(s, i) EXCEPT !.reqs[i].kind = "hit", !.reqs[i].timer = 1,
                             !.reqs[i].tresp = oid, !.reqs[i].ret = "undefined"]

\* Faulty variant: a cache hit that finishes loading inside the loadContent call.
ScheduleCachedSync(s, i, oid) ==
    FinishLoading([s EXCEPT !.reqs[i].kind = "hit"], i, oid)

\* The cache-hit branch of loadContent: finishLoading is left to a timer.
ScheduleCached(s, i, oid) ==
    [s EXCEPT !.reqs[i].kind = "hit", !.reqs[i].timer = 1, !.reqs[i].tresp = oid,
              !.reqs[i].ret = "undefined"]

\* _sendRequest, the default 'sendRequest' listener: the transport is called and
\* request.cancel is defined.
SendRequest(s, i) == [JsonpSendRequest(s, i) EXCEPT !.reqs[i].hasCancel = TRUE]

\* The consumer's 'sendRequest' listener has taken the request and stopped the
\* event: the request is with the consumer's own transport (net: "custom").
CustomSend(s, i) == [s EXCEPT !.reqs[i].kind = "custom", !.reqs[i].net = "custom"]

\* Faulty variant: the default listener runs although the event was stopped.
FireSendRequestIgnoresStop(s, i) ==
    SendRequest(IF s.widgets[s.reqs[i].w].sender = "custom" THEN CustomSend(s, i) ELSE s, i)

\* this.fire( 'sendRequest', request ): the consumer's listener, if there is one,
\* runs first and stops the event; otherwise the default listener (priority 999)
\* calls _sendRequest.
FireSendRequest(s, i) ==
    IF s.widgets[s.reqs[i].w].sender = "custom" THEN CustomSend(s, i)
    ELSE SendRequest(s, i)

\* The loads of widget w that loadContent finds outstanding; it does not look.
Outstanding(s, w) ==
    {j \in DOMAIN s.reqs : s.reqs[j].w = w /\ s.reqs[j].fin = 0 /\ s.reqs[j].terr = 0}

\* loadContent( url, opts ) on widget w; the request is the next of reqs.
LoadContentCall(s, w, u, noNotif, caller) ==
    LET i == Len(s.reqs) + 1
        s0 == [s EXCEPT !.reqs = Append(@, [NewRequest(w, u, noNotif, caller)
                                              EXCEPT !.during = Outstanding(s, w)])]
    IN IF s.cache[u] # 0
       THEN ScheduleCached(s0, i, s.cache[u])
       ELSE [FireSendRequest(IF ~ noNotif THEN CreateTask(s0, i) ELSE s0, i)
                EXCEPT !.reqs[i].ret = "request"]

(* -------------------------- promise reactions ------------------------- *)

\* The reaction of the 'ready' listener on the iframe appendIframe() gave.
ReadyThen(s, p) ==
    IF s.frames[p.f].src THEN s
    ELSE LET g == GetCachedFrameContents(s, p.url)
         IN IF g.found
            THEN RestoreContents(
                     [CacheFrameContents(g.s, p.url, p.f) EXCEPT !.widgets[p.w].restore = TRUE],
                     p.f, g.contents, p.w)
            ELSE IF s.cache[p.url] # 0
            THEN LET resp == s.heap[s.cache[p.url]]
                 IN AddContent(s, p.w, resp.hasHtml, resp.html)
            ELSE LoadContentCall(s, p.w, p.url, TRUE, FALSE)

React(s, p) == IF p.kind = "add" THEN AddContentThen(s, p) ELSE ReadyThen(s, p)

\* CKEDITOR.tools.promise.resolve( iframe ): the reactions run before the next task.
RECURSIVE RunAll(_)
RunAll(s) ==
    IF s.promises = <<>> THEN s
    ELSE RunAll(React([s EXCEPT !.promises = Tail(@)], Head(s.promises)))

\* useOnloadEvent of appendIframe
UseOnloadEvent(s) == s.env = "gecko"

\* The end of a task: where appendIframe() returned resolved promises, their
\* reactions run now; where it waits for iframe#onload they stay.
Settle(s) == IF UseOnloadEvent(s) THEN s ELSE RunAll(s)

\* Reactions run one after the other.
RECURSIVE RunSeq(_, _)
RunSeq(s, todo) ==
    IF todo = <<>> THEN s ELSE RunSeq(React(s, Head(todo)), Tail(todo))

(* ------------------------------- actions ------------------------------ *)

\* The widget's 'ready' listener: with a url, appendIframe() and its reaction.
Ready(s, w) ==
    IF s.widgets[w].url = NoUrl THEN s
    ELSE LET a == AppendIframe(s, w)
         IN Then(a.s, [kind |-> "ready", w |-> w, f |-> a.f, url |-> s.widgets[w].url,
                       hasContent |-> FALSE, content |-> <<>>])

\* A widget instance is created in the editor (inserted empty, or upcast from
\* data that carries a url) and fires 'ready'.
CreateWidget(w, u, l) ==
    /\ widgets[w].st = "none"
    /\ \A v \in Widgets : v < w => widgets[v].st # "none"
    /\ LET s == Settle(Ready([State EXCEPT !.widgets[w] =
                                 [NoWidget EXCEPT !.st = "alive", !.url = u,
                                                  !.inDoc = TRUE, !.listener = l]], w))
       IN Len(s.reqs) <= MaxReq /\ Becomes(s)

\* A consumer calls widget.loadContent( u, { callback, errorCallback, noNotifications } ).
LoadContent(w, u, noNotif) ==
    /\ widgets[w].st = "alive"
    /\ Len(reqs) < MaxReq
    /\ Becomes(Settle(LoadContentCall(State, w, u, noNotif, TRUE)))

\* The provider's script runs: it calls CKEDITOR._.jsonpCallbacks[ key ], which
\* sets a timer when the key is still registered (a TypeError in the script
\* otherwise).
ProviderCallback(i) ==
    /\ i \in DOMAIN reqs
    /\ reqs[i].net = "pending"
    /\ Becomes(IF i \in registry
               THEN Settle(JsonpCallback(
                        [State EXCEPT !.reqs[i].net = "loaded",
                                      !.heap[i] = ProviderResponse(reqs[i].url)],
                        i, i))
               ELSE [State EXCEPT !.reqs[i].net = "loaded"])

\* The script element's 'error' event: cleanUp(), then the error callback
\* _sendRequest passed, which reports 'fetchingFailed'.
ScriptError(i) ==
    /\ i \in DOMAIN reqs
    /\ reqs[i].net = "pending"
    /\ Becomes(Settle(RequestErrorCallback(
                   CleanUp([State EXCEPT !.reqs[i].net = "failed", !.reqs[i].terr = @ + 1], i),
                   i, "fetchingFailed")))

\* A timer fires: the JSONP callback's (cleanUp(), then callback( response )) or
\* the cache-hit timer of loadContent (finishLoading( cachedResponse )).
TimerFire(i) ==
    /\ i \in DOMAIN reqs
    /\ reqs[i].timer > 0
    /\ LET s0 == [State EXCEPT !.reqs[i].timer = @ - 1]
           s1 == IF reqs[i].kind = "sent" THEN CleanUp(s0, i) ELSE s0
       IN Becomes(Settle(FinishLoading(s1, i, reqs[i].tresp)))

\* request.cancel as _sendRequest defines it: the transport's cancel(), then the
\* 'requestCanceled' event (which has no listener of its own).
RequestCancel(s, i) ==
    CleanUp([s EXCEPT !.reqs[i].cancelled =
                 IF @ # "no" THEN @
                 ELSE IF s.reqs[i].fin = 0 /\ s.reqs[i].terr = 0 THEN "pending" ELSE "late"],
            i)

\* The caller calls cancel() on the request loadContent returned, at any time and
\* any number of times.
Cancel(i) ==
    /\ i \in DOMAIN reqs
    /\ reqs[i].caller
    /\ reqs[i].ret = "request"
    /\ reqs[i].hasCancel
    /\ Becomes(Settle(RequestCancel(State, i)))

\* A consumer attaches a 'handleResponse' listener that cancels the event to a
\* live widget: widget.on( 'handleResponse', ... ).
AddListener(w) ==
    /\ widgets[w].st = "alive"
    /\ widgets[w].listener = "none"
    /\ "cancel" \in ScopeListeners
    /\ Becomes([State EXCEPT !.widgets[w].listener = "cancel"])

\* The instance leaves editor.widgets.instances.
DestroyWidget(w) ==
    /\ widgets[w].st = "alive"
    /\ Becomes([State EXCEPT !.widgets[w].st = "destroyed"])

\* The element of a destroyed widget leaves the document, and its iframe with it.
DetachElement(w) ==
    /\ widgets[w].st = "destroyed"
    /\ widgets[w].inDoc
    /\ Becomes(DetachFrame([State EXCEPT !.widgets[w].inDoc = FALSE], widgets[w].frame))

\* The load event of an attached iframe, where appendIframe() listens for it:
\* the promises waiting on it resolve and their reactions run.
IframeLoad(f) ==
    /\ env = "gecko"
    /\ f \in DOMAIN frames
    /\ frames[f].attached
    /\ ~ frames[f].loaded
    /\ LET Waits(p) == p.f = f
           Others(p) == p.f # f
           s == RunSeq([State EXCEPT !.frames[f].loaded = TRUE,
                                     !.promises = SelectSeq(@, Others)],
                       SelectSeq(promises, Waits))
       IN Len(s.reqs) <= MaxReq /\ Becomes(s)

Next ==
    \/ \E w \in ScopeWidgets, u \in ScopeUrls \cup {NoUrl}, l \in ScopeListeners :
          CreateWidget(w, u, l)
    \/ \E w \in ScopeWidgets, u \in ScopeUrls, n \in BOOLEAN : LoadContent(w, u, n)
    \/ \E i \in ReqIds : ProviderCallback(i)
    \/ \E i \in ReqIds : ScriptError(i)
    \/ \E i \in ReqIds : TimerFire(i)
    \/ \E i \in ReqIds : Cancel(i)
    \/ \E w \in Widgets : AddListener(w)
    \/ \E w \in Widgets : DestroyWidget(w)
    \/ \E w \in Widgets : DetachElement(w)
    \/ \E f \in 1..(MaxReq + MaxWidgets) : IframeLoad(f)

Spec == Init /\ [][Next]_vars

(* ------------------------ a replaced transport ------------------------ *)

\* A consumer attaches a 'sendRequest' listener to a live widget that sends the
\* request by its own means and stops the event.
AddSendListener(w) ==
    /\ widgets[w].st = "alive"
    /\ widgets[w].sender = "default"
    /\ Becomes([State EXCEPT !.widgets[w].sender = "custom"])

\* The consumer's transport has the response and calls request.callback( response ).
CustomCallback(i) ==
    /\ i \in DOMAIN reqs
    /\ reqs[i].net = "custom"
    /\ Becomes(Settle(FinishLoading(
                   [State EXCEPT !.reqs[i].net = "loaded",
                                 !.heap[i] = ProviderResponse(reqs[i].url)],
                   i, i)))

\* The consumer's transport has failed and calls request.errorCallback( msg ).
CustomError(i, msg) ==
    /\ i \in DOMAIN reqs
    /\ reqs[i].net = "custom"
    /\ Becomes(Settle(RequestErrorCallback(
                   [State EXCEPT !.reqs[i].net = "failed"], i, msg)))

InitOverride ==
    /\ scope = "override"
    /\ env \in {"webkit", "gecko"}
    /\ Idle
    /\ probe = NoProbe

NextOverride ==
    \/ Next
    \/ \E w \in ScopeWidgets : AddSendListener(w)
    \/ \E i \in ReqIds : CustomCallback(i)
    \/ \E i \in ReqIds, msg \in {"fetchingFailed", "custom"} : CustomError(i, msg)

SpecOverride == InitOverride /\ [][NextOverride]_vars

(* ------------------- functions run on their own ----------------------- *)

\* The variables of the pipeline, which a call of a pure function leaves alone.
pipeline == <<scope, env, widgets, reqs, registry, heap, cache, aggregator, aggs,
              frames, frameCache, promises>>

\* The lists over S of at most n elements.
Seqs(S, n) == UNION {[1..m -> S] : m \in 0..n}

\* Characters of a url or title: a plain one and the ones an attribute must escape.
Chars == {"a", "&", "\"", "<"}

\* The oEmbed responses _responseToHtml is run on: photos with any url and an
\* absent or present title, video and rich responses with any markup of iframe
\* tokens (rewritten before or not), and a response of another type.
Responses ==
    {[type |-> "photo", hasHtml |-> FALSE, html |-> <<>>, url |-> u,
      hasTitle |-> FALSE, title |-> <<>>] : u \in Seqs(Chars, MaxText)}
    \cup {[type |-> "photo", hasHtml |-> FALSE, html |-> <<>>, url |-> u,
           hasTitle |-> TRUE, title |-> x] : u \in {<<>>, <<"a">>, <<"\"">>},
                                            x \in Seqs(Chars, MaxText)}
    \cup {[type |-> ty, hasHtml |-> TRUE, html |-> h, url |-> <<>>,
           hasTitle |-> FALSE, title |-> <<>>] :
             ty \in {"video", "rich"},
             h \in Seqs({IFRAME, TABINDEX, VideoSrc, "</iframe>"}, MaxLen)}
    \cup {ProviderResponse("uLink")}

InitConversion ==
    /\ scope = "function"
    /\ env = "webkit"
    /\ Idle
    /\ probe \in {[op |-> "_responseToHtml", arg |-> r, done |-> FALSE, ret |-> NoProbe] :
                    r \in Responses}

\* One call of _responseToHtml( url, response ).
CallResponseToHtml ==
    /\ probe.op = "_responseToHtml"
    /\ ~ probe.done
    /\ probe' = [probe EXCEPT !.done = TRUE, !.ret = ResponseToHtml(probe.arg)]
    /\ UNCHANGED pipeline

NextConversion == CallResponseToHtml

SpecConversion == InitConversion /\ [][NextConversion]_vars

\* The urls and iframes the frame-contents cache is run on: an iframe that has
\* rendered content and is in the document or not.
CacheUrls == {"uVideo", "uRich"}
CacheFrames == 1..MaxFrames
RenderedFrame(a) ==
    [owner |-> 1, src |-> FALSE, attached |-> a, loaded |-> TRUE,
     body |-> <<Installed(<<"<blockquote>post</blockquote>">>)>>,
     polls |-> 1, taken |-> "no"]

\* The lists of a cache: no document element is in the cache twice.
FrameLists ==
    {c \in [CacheUrls -> Seqs(CacheFrames, MaxLen)] :
        \A u, v \in CacheUrls : \A j \in DOMAIN c[u], k \in DOMAIN c[v] :
            c[u][j] = c[v][k] => (u = v /\ j = k)}

InitFrameCache ==
    /\ scope = "function"
    /\ env = "webkit"
    /\ widgets = [w \in Widgets |-> NoWidget]
    /\ reqs = <<>>
    /\ registry = {}
    /\ heap = [i \in ReqIds |-> NoResponse]
    /\ cache = [u \in Urls |-> 0]
    /\ aggregator = 0
    /\ aggs = <<>>
    /\ promises = <<>>
    /\ frames \in {[f \in CacheFrames |-> RenderedFrame(a[f])] : a \in [CacheFrames -> BOOLEAN]}
    /\ frameCache \in {[u \in Urls |-> IF u \in CacheUrls THEN c[u] ELSE <<>>] : c \in FrameLists}
    /\ probe = NoProbe

\* One call of getCachedFrameContents( editor, u ).
CallGetCachedFrameContents(u) ==
    LET g == GetCachedFrameContents(State, u)
    IN /\ probe' = [op |-> "getCachedFrameContents", arg |-> u, done |-> TRUE,
                    ret |-> [found |-> g.found, contents |-> g.contents]]
       /\ Assign(g.s)

\* One call of cacheFrameContents( editor, u, element ) with the document element
\* of an iframe that is not in the cache.
CallCacheFrameContents(u, f) ==
    /\ \A v \in Urls : \A k \in DOMAIN frameCache[v] : frameCache[v][k] # f
    /\ Len(frameCache[u]) < MaxLen
    /\ probe' = [op |-> "cacheFrameContents", arg |-> u, done |-> TRUE,
                 ret |-> [found |-> FALSE, contents |-> f]]
    /\ Assign(CacheFrameContents(State, u, f))

NextFrameCache ==
    \/ \E u \in CacheUrls : CallGetCachedFrameContents(u)
    \/ \E u \in CacheUrls, f \in CacheFrames : CallCacheFrameContents(u, f)

SpecFrameCache == InitFrameCache /\ [][NextFrameCache]_vars

\* The pieces of the markup addContent is run on: text, a script element with a
\* src (two different ones), a script element without a src, a provider iframe.
Pieces ==
    {<<"<p>text</p>">>,
     <<SCRIPT, ScriptSrc, SCRIPTEND>>,
     <<SCRIPT, OtherSrc, SCRIPTEND>>,
     <<SCRIPT, ">", "code()", SCRIPTEND>>,
     <<IFRAME, VideoSrc, "</iframe>">>}

\* The markup of at most n pieces.
RECURSIVE Markups(_)
Markups(n) ==
    IF n = 0 THEN {<<>>}
    ELSE Markups(n - 1) \cup {m \o p : m \in Markups(n - 1), p \in Pieces}

\* A widget that has called addContent( content ): its iframe is there and the
\* reaction waits for the promise of appendIframe().
InitInstall ==
    /\ scope = "function"
    /\ env = "gecko"
    /\ widgets = [w \in Widgets |->
                    IF w = 1 THEN [NoWidget EXCEPT !.st = "alive", !.url = "uRich",
                                                   !.inDoc = TRUE, !.frame = 1]
                    ELSE NoWidget]
    /\ reqs = <<>>
    /\ registry = {}
    /\ heap = [i \in ReqIds |-> NoResponse]
    /\ cache = [u \in Urls |-> 0]
    /\ aggregator = 0
    /\ aggs = <<>>
    /\ frames = <<[owner |-> 1, src |-> FALSE, attached |-> TRUE, loaded |-> FALSE,
                   body |-> <<>>, polls |-> 0, taken |-> "no"]>>
    /\ frameCache = [u \in Urls |-> <<>>]
    /\ \E c \in Markups(MaxLen) :
          /\ promises = <<[kind |-> "add", w |-> 1, f |-> 1, url |-> NoUrl,
                           hasContent |-> TRUE, content |-> c]>>
          /\ probe = [op |-> "addContent", arg |-> c, done |-> FALSE, ret |-> NoProbe]

\* The iframe fires load: the promise of appendIframe() resolves and the reaction
\* of addContent runs.
InstallReaction ==
    /\ promises # <<>>
    /\ Assign(RunAll([State EXCEPT !.frames[1].loaded = TRUE]))
    /\ probe' = [probe EXCEPT !.done = TRUE]

NextInstall == InstallReaction

SpecInstall == InitInstall /\ [][NextInstall]_vars

(* ------------------------------- claims ------------------------------- *)

SentReqs == {i \in DOMAIN reqs : reqs[i].kind = "sent"}

\* C1: loadContent is asynchronous on a cache hit. A request is never finished in
\* the turn that creates it (no finishLoading, no caller callback); when the cache
\* held the url at the call, the request is a cache hit that starts no transport
\* exchange (no script element, no registered callback) and leaves one timer; and
\* finishLoading of a cache hit runs exactly in the turn that consumes that timer.
C1_CacheHitAsync ==
    [][/\ \A i \in DOMAIN reqs' :
             i \notin DOMAIN reqs =>
                /\ reqs'[i].fin = 0
                /\ reqs'[i].okCb = 0
                /\ cache[reqs'[i].url] # 0 =>
                      /\ reqs'[i].kind = "hit"
                      /\ reqs'[i].timer = 1
                      /\ reqs'[i].script = "none"
                      /\ reqs'[i].net = "none"
                      /\ registry' = registry
       /\ \A i \in DOMAIN reqs :
             reqs[i].kind = "hit" =>
                /\ reqs'[i].script = "none" /\ reqs'[i].net = "none" /\ i \notin registry'
                /\ reqs'[i].fin # reqs[i].fin =>
                      reqs[i].timer = 1 /\ reqs'[i].timer = 0 /\ reqs'[i].fin = 1
      ]_vars

\* C1 witness: a cache hit whose success path has run (in a later turn) and called
\* the caller's callback.
C1_Witness ==
    \E i \in DOMAIN reqs : reqs[i].kind = "hit" /\ reqs[i].fin = 1 /\ reqs[i].okCb = 1

\* C2: for a request sent through the transport, at most one of {success callback
\* invoked, error callback invoked, cancel() called while the request was pending}
\* occurs.
C2_ExactlyOneOutcome ==
    \A i \in SentReqs :
        /\ ~ (reqs[i].fin > 0 /\ reqs[i].terr > 0)
        /\ reqs[i].cancelled = "pending" => reqs[i].fin = 0 /\ reqs[i].terr = 0
        /\ reqs[i].fin <= 1 /\ reqs[i].terr <= 1

\* C3: once cancel() has been called on a dispatched request, neither its success
\* callback nor its error callback is invoked afterwards, and its script element
\* is detached.
C3_NoCallbackAfterCancel ==
    [][\A i \in DOMAIN reqs :
          reqs[i].cancelled # "no" =>
             /\ reqs'[i].fin = reqs[i].fin
             /\ reqs'[i].terr = reqs[i].terr
             /\ reqs'[i].err = reqs[i].err
             /\ reqs[i].script = "removed"
      ]_vars

\* C4: transport cleanup is idempotent. After the first of {success delivery,
\* transport error, cancel()} the request's key is out of the registry and its
\* script element is removed; from then on no step changes either (every later
\* cleanUp is a no-op); a cancel() on a request already cleaned up changes nothing
\* but the fact that it was called; and a cancel() never invokes an error callback
\* or a success callback.
C4_IdempotentCleanup ==
    [][\A i \in DOMAIN reqs :
          reqs[i].kind = "sent" =>
             /\ (reqs'[i].fin > 0 \/ reqs'[i].terr > 0 \/ reqs'[i].cancelled # "no")
                   => reqs'[i].script = "removed" /\ i \notin registry'
             /\ reqs[i].script = "removed"
                   => reqs'[i].script = "removed" /\ i \notin registry /\ i \notin registry'
             /\ reqs'[i].cancelled # reqs[i].cancelled =>
                   /\ reqs'[i].err = reqs[i].err /\ reqs'[i].terr = reqs[i].terr
                   /\ reqs'[i].errCb = reqs[i].errCb /\ reqs'[i].fin = reqs[i].fin
                   /\ reqs[i].script = "removed" =>
                         /\ reqs' = [reqs EXCEPT ![i].cancelled = reqs'[i].cancelled]
                         /\ UNCHANGED <<widgets, registry, heap, cache, aggregator, aggs,
                                        frames, frameCache, promises>>
      ]_vars

\* C4 witness: cancel() was called after the success callback had fired.
C4_Witness ==
    \E i \in SentReqs :
        reqs[i].cancelled = "late" /\ reqs[i].fin = 1 /\ reqs[i].script = "removed"

\* C5: getCachedFrameContents never returns the document element of an iframe that
\* is still attached to the document.
C5_FrameContentLiveness ==
    \A f \in DOMAIN frames : frames[f].taken # "attached"

\* C6: a response that arrives after the widget instance was destroyed is
\* discarded. In the turn in which finishLoading runs for a request whose widget
\* is not alive, no caller callback runs, no notification is shown, the response
\* cache, the widgets and the iframes stay as they were, and the request's task,
\* if any, is done.
C6_LateResponseDiscarded ==
    [][\A i \in DOMAIN reqs :
          (reqs'[i].fin > reqs[i].fin /\ widgets[reqs[i].w].st # "alive") =>
             /\ reqs'[i].okCb = reqs[i].okCb
             /\ reqs'[i].errCb = reqs[i].errCb
             /\ reqs'[i].err = reqs[i].err
             /\ reqs'[i].warned = reqs[i].warned
             /\ UNCHANGED <<cache, widgets, frames, frameCache>>
             /\ reqs[i].task # 0 => reqs'[i].taskSt = "done"
      ]_vars

\* C6 witness: a response arrived on a destroyed widget and the request's task is done.
C6_Witness ==
    \E i \in DOMAIN reqs :
        reqs[i].invalid = 1 /\ reqs[i].taskSt = "done" /\ widgets[reqs[i].w].st = "destroyed"

\* Whether the conversion of the response that request i is about to receive
\* yields no content: the consumer's listener cancels, or the default conversion
\* returns null.
ConversionFails(i) ==
    \/ widgets[reqs[i].w].listener = "cancel"
    \/ heap[reqs[i].tresp].type \notin {"photo", "video", "rich"}

\* C7: error kinds follow the cause. A transport failure reaches the caller's
\* error callback once, as 'fetchingFailed', and 'fetchingFailed' is reported for
\* nothing else; the error callback runs at most once and never together with the
\* success callback; and in the turn in which a response reaches a live widget
\* and its conversion yields no content, the error callback runs once with
\* 'unsupportedUrl' (or the listener's message) and the success callback does not.
C7_ErrorKinds ==
    /\ [](\A i \in DOMAIN reqs :
             reqs[i].caller =>
                /\ reqs[i].terr > 0 =>
                      reqs[i].errCb = 1 /\ reqs[i].msg = "fetchingFailed" /\ reqs[i].okCb = 0
                /\ reqs[i].msg = "fetchingFailed" => reqs[i].terr = 1 /\ reqs[i].fin = 0
                /\ reqs[i].errCb > 0 => reqs[i].errCb = 1 /\ reqs[i].okCb = 0)
    /\ [][\A i \in DOMAIN reqs :
             (/\ reqs[i].caller
              /\ reqs'[i].fin > reqs[i].fin
              /\ widgets[reqs[i].w].st = "alive"
              /\ ConversionFails(i)) =>
                /\ reqs'[i].errCb = reqs[i].errCb + 1
                /\ reqs'[i].okCb = reqs[i].okCb
                /\ reqs'[i].msg = (IF widgets[reqs[i].w].listener = "cancel"
                                    THEN "custom" ELSE "unsupportedUrl")
         ]_vars

\* C7 witness: one request failed in conversion and another in the transport.
C7_Witness ==
    \E i, j \in DOMAIN reqs :
        /\ reqs[i].msg = "unsupportedUrl" /\ reqs[i].errCb = 1 /\ reqs[i].fin = 1
        /\ reqs[j].msg = "fetchingFailed" /\ reqs[j].errCb = 1

\* The tasks of aggregator a.
TasksOf(a) == {i \in DOMAIN reqs : reqs[i].task = a}

\* C8: progress aggregation. At most one aggregator is unfinished, and it is the
\* current one; a task created while the current aggregator is unfinished is
\* taken from it, and a new aggregator is created only when there is none or the
\* current one is finished; an aggregator fires 'finished' exactly once, when the
\* last of its tasks is resolved (done or canceled).
C8_Aggregation ==
    /\ [](\A a \in DOMAIN aggs :
             /\ a # aggregator => aggs[a].resolved = aggs[a].total
             /\ aggs[a].total = Cardinality(TasksOf(a))
             /\ aggs[a].resolved = Cardinality({i \in TasksOf(a) : reqs[i].taskSt # "open"})
             /\ aggs[a].finished = (IF aggs[a].resolved = aggs[a].total THEN 1 ELSE 0))
    /\ [][\A i \in DOMAIN reqs' :
             (i \notin DOMAIN reqs /\ reqs'[i].task # 0) =>
                IF aggregator # 0 /\ aggs[aggregator].resolved # aggs[aggregator].total
                THEN reqs'[i].task = aggregator /\ aggregator' = aggregator
                     /\ Len(aggs') = Len(aggs)
                ELSE reqs'[i].task = Len(aggs) + 1 /\ aggregator' = Len(aggs) + 1
                     /\ Len(aggs') = Len(aggs) + 1
         ]_vars

\* C8 witness: two tasks shared one aggregator, which finished once both were resolved.
C8_Witness ==
    \E a \in DOMAIN aggs : aggs[a].total >= 2 /\ aggs[a].finished = 1

\* C9: a response is immutable once cached. No step changes any field of a
\* response object that the response cache holds.
C9_CachedResponseImmutable ==
    [][\A u \in Urls : cache[u] # 0 => heap'[cache[u]] = heap[cache[u]]]_vars

\* C10: after a load of u succeeded, the caller's success callback has fired
\* exactly once for that call and the response cache returns for u the response
\* the provider delivered.
C10_CachedIsDelivered ==
    \A i \in DOMAIN reqs :
        reqs[i].okCb > 0 =>
           /\ reqs[i].okCb = 1
           /\ cache[reqs[i].url] # 0
           /\ heap[cache[reqs[i].url]] = ProviderResponse(reqs[i].url)

\* C11: a response-cache entry is inserted on the first successful resolution of
\* its url and never evicted or replaced afterwards: no step changes which
\* response object the cache holds for a url that has an entry.
C11_CacheEntryNeverReplaced ==
    [][\A u \in Urls : cache[u] # 0 => cache'[u] = cache[u]]_vars

C13_SuccessDeferred ==
    [][\A i \in DOMAIN reqs' :
          /\ i \notin DOMAIN reqs => reqs'[i].fin = 0 /\ reqs'[i].timer <= 1
          /\ (i \in DOMAIN reqs /\ reqs[i].kind = "sent") =>
                /\ (reqs[i].net = "pending" /\ reqs'[i].net = "loaded") =>
                       /\ reqs'[i].fin = reqs[i].fin
                       /\ reqs'[i].okCb = reqs[i].okCb
                       /\ i \in registry => reqs'[i].timer = reqs[i].timer + 1
                /\ reqs'[i].fin > reqs[i].fin =>
                       /\ reqs[i].net = "loaded"
                       /\ reqs[i].timer > 0
                       /\ reqs'[i].timer = reqs[i].timer - 1
      ]_vars

\* C13 witness: the success callback of a sent request has run, after the turn of
\* the provider's script.
C13_Witness ==
    \E i \in SentReqs :
        reqs[i].net = "loaded" /\ reqs[i].fin = 1 /\ reqs[i].timer = 0 /\ reqs[i].okCb = 1

\* C14: the widget's url and content change only when a load is successfully
\* handled. In the turn in which a load ends in a transport failure, or its
\* response arrives and is not converted, or arrives on a destroyed widget, or
\* arrives after the request was canceled while pending, the widgets (data.url,
\* element content), their iframes and the response cache stay as they were.
C14_ContentOnlyOnSuccess ==
    [][\A i \in DOMAIN reqs :
          (\/ reqs'[i].terr > reqs[i].terr
           \/ /\ reqs'[i].fin > reqs[i].fin
              /\ \/ widgets[reqs[i].w].st # "alive"
                 \/ ConversionFails(i)
                 \/ reqs[i].cancelled = "pending")
          => UNCHANGED <<widgets, frames, cache>>
      ]_vars

\* The error kinds request.errorCallback is called with.
ErrorKinds == {"fetchingFailed", "unsupportedUrl", "custom"}

\* C15: with notifications enabled, every loadContent call that ends in an error
\* (request.errorCallback has run) has shown exactly one warning, of the kind of
\* the error: 'fetchingFailed' exactly for a transport failure.
C15_OneWarningPerFailure ==
    \A i \in DOMAIN reqs :
        (~ reqs[i].noNotif /\ reqs[i].err > 0) =>
           /\ reqs[i].warned = 1
           /\ reqs[i].wmsg \in ErrorKinds
           /\ reqs[i].wmsg = "fetchingFailed" <=> reqs[i].terr > 0

\* C16: with noNotifications set, the request has no progress task and shows no
\* notification on any outcome, and a failure still reaches the caller: its
\* errorCallback has run exactly once, with the error kind.
C16_SilentButDelivered ==
    \A i \in DOMAIN reqs :
        reqs[i].noNotif =>
           /\ reqs[i].task = 0 /\ reqs[i].taskSt = "none"
           /\ reqs[i].warned = 0
           /\ (reqs[i].caller /\ (reqs[i].err > 0 \/ reqs[i].terr > 0)) =>
                 /\ reqs[i].err = 1
                 /\ reqs[i].errCb = 1
                 /\ reqs[i].msg \in ErrorKinds
                 /\ reqs[i].msg = "fetchingFailed" <=> reqs[i].terr > 0

\* C16 witness: two silent loads failed, one in the transport and one in
\* conversion, and each reached its caller.
C16_Witness ==
    \E i, j \in DOMAIN reqs :
        /\ reqs[i].noNotif /\ reqs[i].caller /\ reqs[i].errCb = 1
        /\ reqs[i].msg = "fetchingFailed" /\ reqs[i].warned = 0
        /\ reqs[j].noNotif /\ reqs[j].caller /\ reqs[j].errCb = 1
        /\ reqs[j].msg = "unsupportedUrl" /\ reqs[j].warned = 0

\* Whether, after the step, widget w displays content: as the markup of its
\* element, or installed in its iframe, or waiting for that iframe to load.
DisplaysAfter(w, content) ==
    \/ widgets'[w].html = content
    \/ LET f == widgets'[w].frame
       IN /\ f # 0
          /\ \/ frames'[f].body = <<Installed(content)>>
             \/ /\ ~ frames'[f].loaded
                /\ \E k \in DOMAIN promises' :
                      /\ promises'[k].kind = "add" /\ promises'[k].f = f
                      /\ promises'[k].hasContent /\ promises'[k].content = content

\* C17: no single-flight guard, the last response to arrive wins. A loadContent
\* on a cache miss is sent whatever else is outstanding; and in the turn in which
\* a response is successfully handled on a widget after the response of a load
\* that overlapped with it (either was started while the other was outstanding),
\* the widget's url becomes that request's url and the widget displays the
\* content converted from that response.
C17_LastArrivalWins ==
    [][/\ \A i \in DOMAIN reqs' :
             (i \notin DOMAIN reqs /\ cache[reqs'[i].url] = 0) => reqs'[i].kind = "sent"
       /\ \A i \in DOMAIN reqs :
             (/\ reqs'[i].fin > reqs[i].fin
              /\ widgets[reqs[i].w].st = "alive"
              /\ ~ ConversionFails(i)
              /\ \E j \in DOMAIN reqs :
                    /\ j \in reqs[i].during \/ i \in reqs[j].during
                    /\ reqs[j].fin = 1 /\ reqs[j].invalid = 0 /\ reqs[j].err = 0) =>
                /\ widgets'[reqs[i].w].url = reqs[i].url
                /\ DisplaysAfter(reqs[i].w, ResponseToHtml(heap[reqs[i].tresp]).html)
      ]_vars

\* Request i was handled successfully: finishLoading ran on a live widget and
\* the response was converted.
Succeeded(i) == reqs[i].fin > 0 /\ reqs[i].invalid = 0 /\ reqs[i].err = 0

\* C18: the response cache is shared by all widgets of the definition. The cache
\* holds a url exactly when a load of that url has succeeded on some widget; a
\* loadContent of a url the cache does not hold is sent, whatever other widgets
\* have outstanding; a loadContent of a url the cache holds, by any widget, is a
\* cache hit and registers nothing with the transport.
C18_CacheSharedAcrossWidgets ==
    /\ [](\A u \in Urls :
             cache[u] # 0 <=> \E i \in DOMAIN reqs : reqs[i].url = u /\ Succeeded(i))
    /\ [][\A i \in DOMAIN reqs' :
             i \notin DOMAIN reqs =>
                /\ (\E j \in DOMAIN reqs : reqs[j].url = reqs'[i].url /\ Succeeded(j)) =>
                      reqs'[i].kind = "hit" /\ registry' = registry
                /\ (\A j \in DOMAIN reqs : reqs[j].url = reqs'[i].url => ~ Succeeded(j)) =>
                      reqs'[i].kind = "sent" /\ i \in registry'
         ]_vars

\* C18 witness: a url loaded by one widget was then a cache hit for another
\* widget, which received the content.
C18_Witness ==
    \E i, j \in DOMAIN reqs :
        /\ reqs[i].w # reqs[j].w /\ reqs[i].url = reqs[j].url
        /\ reqs[i].kind = "sent" /\ Succeeded(i)
        /\ reqs[j].kind = "hit" /\ Succeeded(j)
        /\ widgets[reqs[j].w].url = reqs[j].url

\* The reaction of the 'ready' listener of widget w, which carries url u, runs in
\* this step on the widget's new iframe f: in the turn that creates the widget,
\* or, where appendIframe() waits for it, in the turn of the iframe's load event.
ReadyRuns(w, u, f) ==
    \/ /\ env = "webkit"
       /\ widgets[w].st = "none" /\ widgets'[w].st = "alive"
       /\ widgets'[w].url = u
       /\ f = Len(frames) + 1
    \/ /\ env = "gecko"
       /\ f \in DOMAIN frames /\ ~ frames[f].loaded /\ frames'[f].loaded
       /\ \E k \in DOMAIN promises :
             /\ promises[k].kind = "ready" /\ promises[k].w = w
             /\ promises[k].url = u /\ promises[k].f = f

\* The content of the cached response of u: its conversion.
CachedContent(u) ==
    LET r == heap[cache[u]]
    IN IF r.type = "photo" THEN ResponseToHtml(r).html ELSE r.html

\* C19: a widget that becomes ready with url u tries its sources in a fixed
\* order. If the frame-contents cache yields a subtree for u, it is restored into
\* the widget's iframe, and no request is made and the response cache is not
\* touched; otherwise, if the response cache holds u, the cached content is
\* installed and no request is made; otherwise loadContent( u ) is called once,
\* without notifications (no task) and is sent.
C19_ReadySourceOrder ==
    [][\A w \in Widgets, u \in Urls, f \in 1..(Len(frames) + 1) :
          ReadyRuns(w, u, f) =>
             LET g == GetCachedFrameContents(State, u)
             IN IF g.found
                THEN /\ reqs' = reqs /\ registry' = registry
                     /\ UNCHANGED <<cache, heap>>
                     /\ frames'[f].body = frames[g.contents].body
                     /\ widgets'[w].restore
                ELSE IF cache[u] # 0
                THEN /\ reqs' = reqs /\ registry' = registry
                     /\ UNCHANGED <<cache, heap>>
                     /\ DisplaysAfter(w, CachedContent(u))
                ELSE /\ Len(reqs') = Len(reqs) + 1
                     /\ LET r == reqs'[Len(reqs')]
                        IN /\ r.w = w /\ r.url = u
                           /\ r.noNotif /\ r.task = 0
                           /\ r.kind = "sent"
                     /\ aggs' = aggs
      ]_vars

\* Whether iframe f's document element is in the frame-contents list of u.
InFrameCache(fc, u, f) == \E k \in DOMAIN fc[u] : fc[u][k] = f

\* C20: entries enter the frame-contents cache only through capture at teardown.
\* The list of u gains the document element of an iframe exactly in a step that
\* destroys a live widget of url u whose iframe it is and which holds content.
C20_CaptureOnlyAtTeardown ==
    [][\A u \in Urls, f \in DOMAIN frames' :
          (InFrameCache(frameCache', u, f) /\ ~ InFrameCache(frameCache, u, f))
          <=> \E w \in Widgets :
                 /\ widgets[w].st = "alive" /\ widgets'[w].st = "destroyed"
                 /\ widgets[w].url = u /\ widgets[w].frame = f
                 /\ f \in DOMAIN frames /\ frames[f].body # <<>>
      ]_vars

(* ----------------------------- conversion ----------------------------- *)

\* The character an entity of an attribute value stands for.
HtmlDecodeChar(e) ==
    CASE e = "&amp;" -> "&"
      [] e = "&lt;" -> "<"
      [] e = "&gt;" -> ">"
      [] e = "&quot;" -> "\""
      [] OTHER -> e

\* Markup with the tabindex token after each <iframe taken away again.
RECURSIVE WithoutAddedTabindex(_)
WithoutAddedTabindex(h) ==
    IF h = <<>> THEN <<>>
    ELSE IF Head(h) = IFRAME /\ Len(h) > 1 /\ h[2] = TABINDEX
         THEN <<IFRAME>> \o WithoutAddedTabindex(Tail(Tail(h)))
         ELSE <<Head(h)>> \o WithoutAddedTabindex(Tail(h))

\* C21: the default conversion. A photo response gives an img element whose src
\* attribute reads back as the response url and whose alt attribute reads back as
\* the title (as the empty text when there is no title), neither value holding a
\* raw quote; a video or rich response gives its html with tabindex="-1" right
\* after every <iframe and otherwise unchanged; any other type gives null.
C21_ConversionPolicy ==
    (probe.op = "_responseToHtml" /\ probe.done) =>
        LET r == probe.arg
            out == probe.ret
        IN CASE r.type = "photo" ->
                  LET title == IF r.hasTitle THEN r.title ELSE <<>>
                      n == Len(r.url)
                      m == Len(title)
                      src == SubSeq(out.html, 2, n + 1)
                      alt == SubSeq(out.html, n + 3, n + m + 2)
                  IN /\ ~ out.null
                     /\ Len(out.html) = n + m + 3
                     /\ out.html[1] = "<img src=\""
                     /\ out.html[n + 2] = "\" alt=\""
                     /\ out.html[n + m + 3] = "\" style=\"max-width:100%;height:auto\" />"
                     /\ \A k \in 1..n : src[k] # "\"" /\ HtmlDecodeChar(src[k]) = r.url[k]
                     /\ \A k \in 1..m : alt[k] # "\"" /\ HtmlDecodeChar(alt[k]) = title[k]
             [] r.type \in {"video", "rich"} ->
                  /\ ~ out.null
                  /\ \A k \in 1..Len(out.html) :
                        out.html[k] = IFRAME =>
                            k < Len(out.html) /\ out.html[k + 1] = TABINDEX
                  /\ WithoutAddedTabindex(out.html) = r.html
             [] OTHER -> out.null

\* A rich response with two iframes has been converted.
C21_Witness ==
    /\ probe.op = "_responseToHtml"
    /\ probe.done
    /\ probe.arg.type = "rich"
    /\ Cardinality({k \in 1..Len(probe.arg.html) : probe.arg.html[k] = IFRAME}) = 2

(* ------------------------------ the surface --------------------------- *)

\* The iframes appendIframe created in the element of widget w.
SurfacesOf(w) == {f \in DOMAIN frames : frames[f].owner = w /\ ~ frames[f].src}

\* C22: a widget's own iframe is created at most once: whatever is installed
\* later, after a further successful loadContent too, goes into that iframe, so
\* no widget ever has had two iframes made by appendIframe.
C22_SurfaceCreatedOnce ==
    \A w \in Widgets : Cardinality(SurfacesOf(w)) <= 1

\* C23: every handle appendIframe() returns resolves. A handle that waits for an
\* iframe's load event can still resolve only while that event is to come (an
\* iframe fires load once), so no pending handle waits on an iframe that is in
\* the document and has already fired load.
C23_HandleNeverStuck ==
    \A k \in DOMAIN promises :
        LET f == frames[promises[k].f]
        IN f.attached => ~ f.loaded

(* ------------------------- frame-contents cache ----------------------- *)

\* The entries of list that pass the liveness check: the iframe the document
\* element came from is no longer in the document.
Eligible(list) == {k \in 1..Len(list) : ~ frames[list[k]].attached}

\* C26: getCachedFrameContents( u ) returns the earliest entry of u's list whose
\* iframe is detached and removes exactly that entry, the others keeping their
\* order; it returns nothing and changes nothing when the list has no such entry;
\* the lists of other urls are untouched.
C26_PopFrameEffect ==
    [][probe'.op = "getCachedFrameContents" =>
         LET u == probe'.arg
             list == frameCache[u]
             ok == Eligible(list)
         IN /\ \A v \in Urls \ {u} : frameCache'[v] = frameCache[v]
            /\ IF ok = {}
               THEN ~ probe'.ret.found /\ frameCache'[u] = list
               ELSE LET k == CHOOSE j \in ok : \A m \in ok : j <= m
                    IN /\ probe'.ret.found
                       /\ probe'.ret.contents = list[k]
                       /\ frameCache'[u] = SubSeq(list, 1, k - 1)
                                           \o SubSeq(list, k + 1, Len(list))]_vars

(* ------------------------- order of the arrival ----------------------- *)

\* What finishLoading does for request i when the response can be handled.
ExpectedSteps(i) ==
    <<"convert">> \o (IF reqs[i].task # 0 THEN <<"task">> ELSE <<>>)
    \o <<"set", "cache">> \o (IF reqs[i].caller THEN <<"callback">> ELSE <<>>)
    \o <<"install">>

InstalledAfter(w, content) ==
    LET f == widgets'[w].frame
    IN /\ f # 0
       /\ \/ /\ frames'[f].body # <<>>
             /\ frames'[f].body[Len(frames'[f].body)] = Installed(content)
          \/ /\ ~ frames'[f].loaded
             /\ \E k \in DOMAIN promises' :
                   /\ promises'[k].kind = "add" /\ promises'[k].f = f
                   /\ promises'[k].hasContent /\ promises'[k].content = content

\* C28: in the turn in which a response is handled successfully, what goes into
\* the widget's iframe is the content the conversion produced from that response,
\* whatever its type: the img markup of a photo, the rewritten html of a video or
\* rich response.
C28_InstalledIsConverted ==
    [][\A i \in DOMAIN reqs :
          (/\ Len(reqs'[i].steps) > Len(reqs[i].steps)
           /\ reqs'[i].steps[Len(reqs'[i].steps)] = "install") =>
              InstalledAfter(reqs[i].w, ResponseToHtml(heap[reqs[i].tresp]).html)
      ]_vars

(* --------------------------- script handling -------------------------- *)

\* The positions of the src attributes of script elements in markup h.
ScriptSrcs(h) == {k \in 2..Len(h) : h[k - 1] = SCRIPT /\ SrcOf(h[k]) # ""}

\* C29: installing content puts the content without any script element into the
\* iframe and appends at most one script element after it: one whose src is the
\* first script src of the original markup when there is one, and none when the
\* markup has no script src.
C29_ScriptHandling ==
    (probe.op = "addContent" /\ probe.done) =>
        LET c == probe.arg
            e == frames[1].body[Len(frames[1].body)]
            srcs == ScriptSrcs(c)
        IN /\ frames[1].body # <<>>
           /\ \A k \in 1..Len(e.html) : e.html[k] \notin {SCRIPT, SCRIPTEND}
           /\ Len(e.scripts) <= 1
           /\ IF srcs = {} THEN e.scripts = <<>>
              ELSE e.scripts = <<SrcOf(c[CHOOSE k \in srcs : \A m \in srcs : k <= m])>>

(* ------------------------ the send step replaced ---------------------- *)

\* Request i is with the consumer's transport, which has not called back yet.
WithConsumer(i) == reqs[i].net = "custom"

\* C30: the send step can be replaced. A request that loadContent creates on a
\* cache miss while the consumer's 'sendRequest' listener stops the event never
\* reaches the JSONP transport: no script element, no registered callback, no
\* timer. Nothing happens to it until the listener calls request.callback or
\* request.errorCallback, and then the same paths run as after the default
\* transport: on success conversion, task, content, cache, the caller's callback
\* and installation (or the unsupported-url error); on error the task is
\* cancelled, the warning is shown unless suppressed, and the caller's
\* errorCallback gets the message.
C30_SendOverridable ==
    /\ [](\A i \in DOMAIN reqs :
            /\ (reqs[i].kind = "custom" \/ WithConsumer(i)) =>
                  /\ i \notin registry
                  /\ reqs[i].script = "none"
                  /\ reqs[i].timer = 0 /\ reqs[i].terr = 0
            /\ WithConsumer(i) =>
                  /\ reqs[i].fin = 0 /\ reqs[i].err = 0
                  /\ reqs[i].okCb = 0 /\ reqs[i].errCb = 0 /\ reqs[i].warned = 0
                  /\ reqs[i].steps = <<>>
                  /\ reqs[i].task # 0 => reqs[i].taskSt = "open")
    /\ [][/\ \A i \in DOMAIN reqs' :
               (/\ i \notin DOMAIN reqs
                /\ widgets[reqs'[i].w].sender = "custom"
                /\ cache[reqs'[i].url] = 0) =>
                    /\ reqs'[i].kind = "custom" /\ reqs'[i].net = "custom"
                    /\ i \notin registry' /\ reqs'[i].script = "none"
          /\ \A i \in DOMAIN reqs :
               (WithConsumer(i) /\ reqs'[i].net = "loaded") =>
                    /\ reqs'[i].fin = 1
                    /\ IF widgets[reqs[i].w].st # "alive"
                       THEN reqs'[i].invalid = 1 /\ reqs'[i].taskSt \in {"none", "done"}
                       ELSE IF \/ widgets[reqs[i].w].listener = "cancel"
                               \/ heap'[i].type \notin {"photo", "video", "rich"}
                       THEN /\ reqs'[i].err = 1
                            /\ reqs[i].caller => reqs'[i].errCb = 1
                       ELSE /\ reqs'[i].steps[Len(reqs'[i].steps)] = "install"
                            /\ cache'[reqs[i].url] = i
                            /\ widgets'[reqs[i].w].url = reqs[i].url
                            /\ reqs'[i].taskSt \in {"none", "done"}
                            /\ reqs'[i].okCb = IF reqs[i].caller THEN 1 ELSE 0
          /\ \A i \in DOMAIN reqs :
               (WithConsumer(i) /\ reqs'[i].net = "failed") =>
                    /\ reqs'[i].err = 1 /\ reqs'[i].fin = 0
                    /\ reqs'[i].taskSt \in {"none", "canceled"}
                    /\ reqs'[i].warned = IF reqs[i].task # 0 /\ ~ reqs[i].noNotif THEN 1 ELSE 0
                    /\ reqs'[i].errCb = IF reqs[i].caller THEN 1 ELSE 0
                    /\ cache' = cache /\ widgets' = widgets
         ]_vars

\* A request sent by the consumer's listener has succeeded through
\* request.callback; another has failed through request.errorCallback.
C30_Witness ==
    \E i, j \in DOMAIN reqs :
        /\ reqs[i].kind = "custom" /\ reqs[i].okCb = 1 /\ cache[reqs[i].url] = i
        /\ reqs[j].kind = "custom" /\ reqs[j].errCb = 1 /\ reqs[j].net = "failed"

(* --------------------------- tasks resolved --------------------------- *)

\* Request i has terminated and nothing is left that could still call it back:
\* it has seen a response, an error or cancel(), the browser is done with its
\* script and no timer of it is pending.
Terminated(i) ==
    /\ reqs[i].fin > 0 \/ reqs[i].err > 0 \/ reqs[i].cancelled # "no"
    /\ reqs[i].net # "pending"
    /\ reqs[i].timer = 0

\* C31: the progress task of a request that has terminated, by success, by error
\* or by cancel() on the returned request, is resolved (done or canceled), and an
\* aggregator all of whose requests have terminated has fired 'finished'.
C31_TasksResolved ==
    /\ \A i \in DOMAIN reqs :
          (reqs[i].task # 0 /\ Terminated(i)) => reqs[i].taskSt \in {"done", "canceled"}
    /\ \A a \in DOMAIN aggs :
          (aggs[a].total > 0 /\ \A i \in TasksOf(a) : Terminated(i)) => aggs[a].finished > 0

(* ---------------------- errors for a destroyed widget ----------------- *)

\* C32: a transport error that arrives when the widget of the request has been
\* destroyed is discarded: no warning is shown and the caller's errorCallback is
\* not called, while the task of the request is resolved.
C32_LateErrorDiscarded ==
    [][\A i \in DOMAIN reqs :
          (reqs'[i].terr > reqs[i].terr /\ widgets[reqs[i].w].st = "destroyed") =>
              /\ reqs'[i].warned = reqs[i].warned
              /\ reqs'[i].errCb = reqs[i].errCb
              /\ reqs[i].task # 0 => reqs'[i].taskSt \in {"done", "canceled"}
      ]_vars

(* ---------------------- content still displayed ----------------------- *)

\* Iframe f is in the document inside the element of a live widget and has
\* content installed.
LivePopulated(f) ==
    /\ frames[f].attached
    /\ widgets[frames[f].owner].st = "alive"
    /\ widgets[frames[f].owner].frame = f
    /\ frames[f].body # <<>>

\* C33: content that is still displayed is never taken for reuse. No step, the
\* 'ready' handling of another widget of the same url included, takes content
\* away from an iframe that is in the document and stays there: what the iframe
\* held before, it still holds afterwards.
C33_DisplayedContentKept ==
    [][\A f \in DOMAIN frames :
          (LivePopulated(f) /\ frames'[f].attached /\ widgets'[frames[f].owner].frame = f) =>
              /\ Len(frames'[f].body) >= Len(frames[f].body)
              /\ SubSeq(frames'[f].body, 1, Len(frames[f].body)) = frames[f].body
      ]_vars

====
